---- MODULE Spec2Model ----
(***************************************************************************)
(* Model of imglab's pixel operations: the point-wise arithmetic and       *)
(* gray_scale of ArithmeticalOperations.py and the filters of Filters.py.  *)
(* One session is one call (point-wise calls may be chained once); the     *)
(* loops and checks whose order matters are separate steps.                *)
(*                                                                         *)
(* Numbers: a float is kept as an exact integer count of 1/Scale units     *)
(* (point-wise operands), of thirds (mean) or of thousandths (luminosity). *)
(* Arrays of samples are sequences; a 2-D channel is a sequence of rows.   *)
(***************************************************************************)
EXTENDS Integers, Sequences, FiniteSets, TLC

VARIABLES
  pc,          \* position: "idle", inside a call, "returned" or "raised"
  fn,          \* the function called
  array,       \* point-wise: the input samples
  value,       \* point-wise: the scalar operand
  arr,         \* point-wise: the wrapper's result before clip and cast
  prev,        \* point-wise: the call before this one, when chained
  image,       \* gray_scale, filters: the input buffer
  method,      \* gray_scale: the method argument
  methods,     \* gray_scale: the methods dict, per pixel
  angles,      \* sobel: the angles argument
  responses,   \* sobel: the responses list
  ksize,       \* median_filter: the ksize argument
  size,        \* gaussian_filter: the size argument
  kernel,      \* gaussian_filter: the kernel grid
  filter_func, \* apply_filter_rgb: the filter applied to each channel
  cast,        \* apply_filter_rgb: what the build's float -> uint8 cast does
  ret,         \* the value returned
  err          \* the exception raised

vars == <<pc, fn, array, value, arr, prev, image, method, methods, angles,
          responses, ksize, size, kernel, filter_func, cast, ret, err>>

(***************************************************************************)
(* Bounds of the model.                                                    *)
(***************************************************************************)
\* denominator of the fractional scalar operands
Scale == 2
\* largest height and width of a uniform channel
MaxDim == 3
\* largest number of Sobel directions in one call
MaxAngles == 2
\* largest Gaussian kernel size argument
MaxSize == 5

\* largest 8-bit sample, the upper clip limit
MaxSample == 255

Samples == 0..MaxSample

(***************************************************************************)
(* Generic helpers.                                                        *)
(***************************************************************************)
Min(a, b) == IF a < b THEN a ELSE b
Max(a, b) == IF a > b THEN a ELSE b

\* Python's // on integers: floor division, also for negative operands
FloorDiv(a, b) ==
  IF b > 0 THEN (a - (a % b)) \div b
  ELSE ((-a) - ((-a) % (-b))) \div (-b)

RECURSIVE SeqSum(_)
SeqSum(s) == IF s = <<>> THEN 0 ELSE s[1] + SeqSum(Tail(s))

(***************************************************************************)
(* ArithmeticalOperations.py                                               *)
(***************************************************************************)
\* array.astype(np.int16) and int16 arithmetic: two's complement, 16 bits
Int16(x) == ((x + 32768) % 65536) - 32768

\* a scalar operand: a Python int, or a Python float num/Scale
IntOperand(n) == [kind |-> "int", num |-> n]
FloatOperand(n) == [kind |-> "float", num |-> n]

\* the operand in 1/Scale units
Numer(v) == IF v.kind = "int" THEN v.num * Scale ELSE v.num

\* The undecorated functions. An element e is an int16 sample; the result
\* is in 1/Scale units. int16 array (op) Python int stays int16 and wraps;
\* int16 array (op) Python float is float64, exact at these magnitudes.
image_add_raw(e, v) ==
  IF v.kind = "int" THEN Int16(e + v.num) * Scale ELSE e * Scale + v.num

\* image_subtract with the operator of image_add
image_subtract_added(e, v) ==
  IF v.kind = "int" THEN Int16(e + v.num) * Scale ELSE e * Scale + v.num

image_subtract_raw(e, v) ==
  IF v.kind = "int" THEN Int16(e - v.num) * Scale ELSE e * Scale - v.num

image_multiply_raw(e, v) ==
  IF v.kind = "int" THEN Int16(e * v.num) * Scale ELSE e * v.num

\* arr // value on int16: NumPy's integer floor_divide gives 0 for a zero
\* divisor (it warns, it does not raise)
image_divide_raw(e, v) ==
  IF v.num = 0 THEN 0 ELSE Int16(FloorDiv(e, v.num)) * Scale

PointwiseFns == {"image_add", "image_subtract", "image_multiply", "image_divide"}

Undecorated(f, e, v) ==
  CASE f = "image_add" -> image_add_raw(e, v)
    [] f = "image_subtract" -> image_subtract_raw(e, v)
    [] f = "image_multiply" -> image_multiply_raw(e, v)
    [] f = "image_divide" -> image_divide_raw(e, v)

\* pointwise_operation.wrapper: widen to int16, then call the function
pointwise_wrapper(f, a, v) == [k \in 1..Len(a) |-> Undecorated(f, Int16(a[k]), v)]

\* np.clip(arr, 0, 255) on a value in 1/Scale units
Clip(x) == Max(0, Min(MaxSample * Scale, x))

\* .astype(np.uint8) of a clipped value: the fraction is truncated
AsUint8(x) == x \div Scale

\* apply_clip_uint8.wrapper
apply_clip_uint8(a) == [k \in 1..Len(a) |-> AsUint8(Clip(a[k]))]

(***************************************************************************)
(* gray_scale. An RGB buffer is a sequence of pixels <<R, G, B>>.          *)
(***************************************************************************)
\* uint8 + uint8 stays uint8: the sum is kept modulo 256
Uint8Add(a, b) == (a + b) % 256

\* arr.ndim != 3 or arr.shape[2] != 3
BadShape(img) == \E k \in 1..Len(img) : Len(img[k]) # 3

\* the methods dict of one pixel; every entry is built before the lookup.
\* mean is in thirds, luminosity in thousandths, the channels as they are.
MethodsOf(p) ==
  [mean |-> Uint8Add(Uint8Add(p[1], p[2]), p[3]),
   luminosity |-> 299 * p[1] + 587 * p[2] + 114 * p[3],
   RED |-> p[1],
   GREEN |-> p[2],
   BLUE |-> p[3]]

MethodNames == {"mean", "luminosity", "RED", "GREEN", "BLUE"}

\* clip and astype(uint8) of the selected entry. The float64 luminosity of
\* an exact integer may come out one ulp below it, so either truncation
\* is possible there.
GrayOutcomes(m, name) ==
  CASE name = "mean" -> {m.mean \div 3}
    [] name = "luminosity" ->
         IF m.luminosity % 1000 = 0 /\ m.luminosity > 0
         THEN {m.luminosity \div 1000, m.luminosity \div 1000 - 1}
         ELSE {m.luminosity \div 1000}
    [] name = "RED" -> {m.RED}
    [] name = "GREEN" -> {m.GREEN}
    [] name = "BLUE" -> {m.BLUE}

(***************************************************************************)
(* Filters.py. A channel is a sequence of H rows of W samples.             *)
(***************************************************************************)
Height(img) == Len(img)
Width(img) == Len(img[1])

\* np.pad(..., mode="edge"): the border samples repeated instead of zeros
PaddedEdge(img, r, c) ==
  img[Max(1, Min(Height(img), r))][Max(1, Min(Width(img), c))]

\* np.pad(..., constant_values=0), read at image coordinates (r, c)
Padded(img, r, c) ==
  IF r \in 1..Height(img) /\ c \in 1..Width(img) THEN img[r][c] ELSE 0

RECURSIVE SumOver(_, _)
SumOver(S, f) ==
  IF S = {} THEN 0
  ELSE LET x == CHOOSE y \in S : TRUE IN f[x] + SumOver(S \ {x}, f)

\* convolve2d with the window read from the unpadded image: its top-left
\* corner, not its centre, is at (i, j)
CorrelateUncentred(img, k, i, j) ==
  LET idx == (1..Len(k)) \X (1..Len(k[1]))
      term == [d \in idx |->
                 Padded(img, i + d[1] - 1, j + d[2] - 1) * k[d[1]][d[2]]]
  IN SumOver(idx, term)

\* one output sample of convolve2d: sum(window * kernel), kernel not flipped
Correlate(img, k, i, j) ==
  LET kh == Len(k)
      kw == Len(k[1])
      ph == kh \div 2
      pw == kw \div 2
      idx == (1..kh) \X (1..kw)
      term == [d \in idx |->
                 Padded(img, i + d[1] - 1 - ph, j + d[2] - 1 - pw) * k[d[1]][d[2]]]
  IN SumOver(idx, term)

\* convolve2d: float32 output, neither clipped nor narrowed
convolve2d(img, k) ==
  [i \in 1..Height(img) |-> [j \in 1..Width(img) |-> Correlate(img, k, i, j)]]

SharpenKernel == << <<0, -1, 0>>, <<-1, 5, -1>>, <<0, -1, 0>> >>

\* sharpen_filter returns what convolve2d returns
sharpen_filter(img) == convolve2d(img, SharpenKernel)

\* np.median of a window: the middle order statistic, or the mean of the
\* two middle ones, in halves
KthSmallest(w, k) ==
  CHOOSE x \in {w[d] : d \in DOMAIN w} :
    /\ Cardinality({d \in DOMAIN w : w[d] < x}) < k
    /\ Cardinality({d \in DOMAIN w : w[d] <= x}) >= k

Median2(w) ==
  LET n == Cardinality(DOMAIN w)
  IN IF n % 2 = 1 THEN 2 * KthSmallest(w, (n + 1) \div 2)
     ELSE KthSmallest(w, n \div 2) + KthSmallest(w, n \div 2 + 1)

MedianWindow(img, ks, i, j) ==
  LET ph == ks \div 2
  IN [d \in (1..ks) \X (1..ks) |->
        Padded(img, i + d[1] - 1 - ph, j + d[2] - 1 - ph)]

\* median_filter: out is zeros_like(image), so the median is narrowed to
\* the sample type on assignment
median_filter(img, ks) ==
  [i \in 1..Height(img) |->
     [j \in 1..Width(img) |-> Median2(MedianWindow(img, ks, i, j)) \div 2]]

SOBEL_KERNELS ==
  [a \in {"0", "45", "90", "135"} |->
     CASE a = "0" -> << <<-1, 0, 1>>, <<-2, 0, 2>>, <<-1, 0, 1>> >>
       [] a = "45" -> << <<0, 1, 2>>, <<-1, 0, 1>>, <<-2, -1, 0>> >>
       [] a = "90" -> << <<1, 2, 1>>, <<0, 0, 0>>, <<-1, -2, -1>> >>
       [] a = "135" -> << <<2, 1, 0>>, <<1, 0, -1>>, <<0, -1, -2>> >>]

\* np.clip(np.sqrt(s), 0, 255).astype(np.uint8) of a sum of squares s
Magnitude(s) ==
  IF s >= MaxSample * MaxSample THEN MaxSample
  ELSE CHOOSE r \in 0..MaxSample : r * r <= s /\ s < (r + 1) * (r + 1)

\* sum(r * r for r in responses) at one pixel
SumSquares(rs, i, j) == SeqSum([k \in 1..Len(rs) |-> rs[k][i][j] * rs[k][i][j]])

\* the tail of sobel: an empty sum is the Python int 0, and the result is
\* then a NumPy scalar instead of an array
SobelResult(img, rs) ==
  IF rs = <<>> THEN [kind |-> "scalar", dtype |-> "uint8", data |-> <<0>>]
  ELSE [kind |-> "image", dtype |-> "uint8",
        data |-> [i \in 1..Height(img) |->
                    [j \in 1..Width(img) |-> Magnitude(SumSquares(rs, i, j))]]]

\* np.mgrid[-size // 2:size // 2 + 1]: unary minus binds first, so the
\* start is floor(-size / 2); the stop is exclusive
GridOffsets(sz) ==
  LET lo == FloorDiv(-sz, 2)
      hi == sz \div 2 + 1
  IN [k \in 1..(hi - lo) |-> lo + k - 1]

\* the Gaussian kernel, kept as the exponent's numerator x**2 + y**2 of each
\* entry: the weight exp(-(x**2 + y**2) / (2 sigma**2)) decreases in it
GaussianGrid(sz) ==
  LET o == GridOffsets(sz)
  IN [a \in 1..Len(o) |-> [b \in 1..Len(o) |-> o[a] * o[a] + o[b] * o[b]]]

\* pixel offsets that kernel row (or column) d of a kernel with n rows reads
\* in convolve2d: padded[i + d] is image row i + d - ph
FootprintOffsets(n) == {d - 1 - (n \div 2) : d \in 1..n}

\* float32 -> uint8 on assignment into apply_filter_rgb's out buffer. In
\* range the fraction is dropped; out of range the conversion is undefined
\* in C, and builds differ: the low 8 bits, or the nearest limit.
CastModes == {"wrap", "saturate"}

CastUint8(x, mode) ==
  IF x \in Samples THEN x
  ELSE IF mode = "wrap" THEN x % 256
  ELSE Max(0, Min(MaxSample, x))

CastChannel(ch, mode) ==
  [i \in 1..Len(ch) |-> [j \in 1..Len(ch[i]) |-> CastUint8(ch[i][j], mode)]]

(***************************************************************************)
(* Inputs.                                                                 *)
(***************************************************************************)
Palette == {0, 100, MaxSample}

Arrays == {<<v>> : v \in Samples} \cup {<<0, MaxSample>>, <<100, 200>>}

IntOperands ==
  {IntOperand(n) : n \in {0, 1, 2, 3, 50, 129, 200, 300, -1, -50, 32767, -32768}}

FloatOperands == {FloatOperand(n) : n \in {-1, 1, Scale + 1, 2 * Scale}}

Operands == IntOperands \cup FloatOperands

ChannelsOver(dims, vals) ==
  UNION {[1..h -> [1..w -> vals]] : <<h, w>> \in dims \X dims}

Uniform(h, w, v) == [i \in 1..h |-> [j \in 1..w |-> v]]

UniformChannels == {Uniform(h, w, v) : <<h, w, v>> \in (1..MaxDim) \X (1..MaxDim) \X Samples}

SmallChannels == ChannelsOver(1..2, Palette)

Channels == UniformChannels \cup SmallChannels

\* RGB buffers for apply_filter_rgb: three channels of one short row each
RgbImages == UNION {[1..3 -> [1..1 -> [1..w -> Palette]]] : w \in 1..2}

GrayPalette == {0, 1, 85, 86, 200, MaxSample}

\* buffers for gray_scale: one pixel of three channels, or of one
GrayImages ==
  {<<p>> : p \in [1..3 -> GrayPalette]} \cup {<<p>> : p \in [1..1 -> GrayPalette]}

AngleNames == {"0", "45", "90", "135", "270"}

AngleSeqs == UNION {[1..n -> AngleNames] : n \in 0..MaxAngles}

SobelInputs ==
  (UniformChannels \X {<<"0", "90">>}) \cup (SmallChannels \X AngleSeqs)

(***************************************************************************)
(* The state machine.                                                      *)
(***************************************************************************)
NoRet == [kind |-> "none", dtype |-> "", data |-> <<>>]

Init ==
  /\ pc = "idle"
  /\ fn = ""
  /\ array = <<>>
  /\ value = IntOperand(0)
  /\ arr = <<>>
  /\ prev = <<>>
  /\ image = <<>>
  /\ method = ""
  /\ methods = <<>>
  /\ angles = <<>>
  /\ responses = <<>>
  /\ ksize = 0
  /\ size = 0
  /\ kernel = <<>>
  /\ filter_func = ""
  /\ cast = ""
  /\ ret = NoRet
  /\ err = ""

\* A call of one decorated point-wise function: on a fresh array, or once
\* more on the array the previous call returned, with the same operand.
CanChain == pc = "returned" /\ fn \in PointwiseFns /\ prev = <<>>

Pointwise(f) ==
  /\ pc = "idle" \/ CanChain
  /\ \E a \in (IF pc = "idle" THEN Arrays ELSE {ret.data}),
        v \in (IF pc = "idle" THEN Operands ELSE {value}) :
       /\ f = "image_divide" => v.kind = "int"
       /\ prev' = IF pc = "idle" THEN prev
                  ELSE <<[fn |-> fn, array |-> array, arr |-> arr, ret |-> ret.data]>>
       /\ fn' = f
       /\ array' = a
       /\ value' = v
       /\ arr' = pointwise_wrapper(f, a, v)
       /\ ret' = [kind |-> "array", dtype |-> "uint8", data |-> apply_clip_uint8(arr')]
       /\ pc' = "returned"
       /\ UNCHANGED <<image, method, methods, angles, responses, ksize, size,
                      kernel, filter_func, cast, err>>

ImageAdd == Pointwise("image_add")
ImageSubtract == Pointwise("image_subtract")
ImageMultiply == Pointwise("image_multiply")
ImageDivide == Pointwise("image_divide")

\* gray_scale, entry: the shape check
GrayScaleCall ==
  /\ pc = "idle"
  /\ \E img \in GrayImages, m \in MethodNames \cup {"median"} :
       /\ fn' = "gray_scale"
       /\ image' = img
       /\ method' = m
       /\ IF BadShape(img)
          THEN pc' = "raised" /\ err' = "ValueError"
          ELSE pc' = "gray_methods" /\ err' = err
       /\ UNCHANGED <<array, value, arr, prev, methods, angles, responses, ksize,
                      size, kernel, filter_func, cast, ret>>

\* gray_scale: the methods dict is built, every entry of it
GrayScaleMethods ==
  /\ pc = "gray_methods"
  /\ methods' = [k \in 1..Len(image) |-> MethodsOf(image[k])]
  /\ pc' = "gray_lookup"
  /\ UNCHANGED <<fn, array, value, arr, prev, image, method, angles, responses,
                 ksize, size, kernel, filter_func, cast, ret, err>>

\* gray_scale: the method is looked up, and the result stacked, clipped
\* and narrowed
GrayScaleLookup ==
  /\ pc = "gray_lookup"
  /\ IF method \notin MethodNames
     THEN /\ pc' = "raised"
          /\ err' = "ValueError"
          /\ ret' = ret
     ELSE \E pick \in [1..Len(image) -> BOOLEAN] :
            LET gray(k) ==
                  LET o == GrayOutcomes(methods[k], method)
                      hi == CHOOSE x \in o : \A y \in o : y <= x
                      lo == CHOOSE x \in o : \A y \in o : y >= x
                  IN IF pick[k] THEN hi ELSE lo
            IN /\ ret' = [kind |-> "rgb", dtype |-> "uint8",
                          data |-> [k \in 1..Len(image) |->
                                      <<gray(k), gray(k), gray(k)>>]]
               /\ pc' = "returned"
               /\ err' = err
  /\ UNCHANGED <<fn, array, value, arr, prev, image, method, methods, angles,
                 responses, ksize, size, kernel, filter_func, cast>>

\* sharpen_filter
SharpenFilter ==
  /\ pc = "idle"
  /\ \E img \in Channels :
       /\ fn' = "sharpen_filter"
       /\ image' = img
       /\ ret' = [kind |-> "image", dtype |-> "float32", data |-> sharpen_filter(img)]
       /\ pc' = "returned"
       /\ UNCHANGED <<array, value, arr, prev, method, methods, angles, responses,
                      ksize, size, kernel, filter_func, cast, err>>

\* median_filter
MedianFilter ==
  /\ pc = "idle"
  /\ \E img \in Channels, ks \in 1..3 :
       /\ fn' = "median_filter"
       /\ image' = img
       /\ ksize' = ks
       /\ ret' = [kind |-> "image", dtype |-> "uint8", data |-> median_filter(img, ks)]
       /\ pc' = "returned"
       /\ UNCHANGED <<array, value, arr, prev, method, methods, angles, responses,
                      size, kernel, filter_func, cast, err>>

\* gaussian_filter up to the kernel: the grid is built. The weights and the
\* blurred samples are floats this model does not compute.
GaussianFilter ==
  /\ pc = "idle"
  /\ \E sz \in 1..MaxSize :
       /\ fn' = "gaussian_filter"
       /\ size' = sz
       /\ kernel' = GaussianGrid(sz)
       /\ pc' = "gaussian_kernel"
       /\ UNCHANGED <<array, value, arr, prev, image, method, methods, angles,
                      responses, ksize, filter_func, cast, ret, err>>

\* sobel, entry
SobelCall ==
  /\ pc = "idle"
  /\ \E in \in SobelInputs :
       /\ fn' = "sobel"
       /\ image' = in[1]
       /\ angles' = in[2]
       /\ responses' = <<>>
       /\ pc' = "sobel_loop"
       /\ UNCHANGED <<array, value, arr, prev, method, methods, ksize, size,
                      kernel, filter_func, cast, ret, err>>

\* sobel, one turn of the loop: the kernel is looked up, then applied
SobelIter ==
  /\ pc = "sobel_loop"
  /\ Len(responses) < Len(angles)
  /\ LET ang == angles[Len(responses) + 1]
     IN IF ang \in DOMAIN SOBEL_KERNELS
        THEN /\ responses' = Append(responses, convolve2d(image, SOBEL_KERNELS[ang]))
             /\ UNCHANGED <<pc, err>>
        ELSE /\ pc' = "raised"
             /\ err' = "KeyError"
             /\ UNCHANGED responses
  /\ UNCHANGED <<fn, array, value, arr, prev, image, method, methods, angles,
                 ksize, size, kernel, filter_func, cast, ret>>

\* sobel, after the loop: magnitude, clip, cast
SobelFinish ==
  /\ pc = "sobel_loop"
  /\ Len(responses) = Len(angles)
  /\ ret' = SobelResult(image, responses)
  /\ pc' = "returned"
  /\ UNCHANGED <<fn, array, value, arr, prev, image, method, methods, angles,
                 responses, ksize, size, kernel, filter_func, cast, err>>

\* apply_filter_rgb with sharpen_filter or median_filter (default ksize):
\* each channel's result is stored into the uint8 out buffer
FilterChannel(f, ch) ==
  IF f = "sharpen_filter" THEN sharpen_filter(ch) ELSE median_filter(ch, 3)

ApplyFilterRgb ==
  /\ pc = "idle"
  /\ \E rgb \in RgbImages, f \in {"sharpen_filter", "median_filter"}, mode \in CastModes :
       /\ fn' = "apply_filter_rgb"
       /\ image' = rgb
       /\ filter_func' = f
       /\ cast' = mode
       /\ ret' = [kind |-> "rgb", dtype |-> "uint8",
                  data |-> [c \in 1..3 |-> CastChannel(FilterChannel(f, rgb[c]), mode)]]
       /\ pc' = "returned"
       /\ UNCHANGED <<array, value, arr, prev, method, methods, angles, responses,
                      ksize, size, kernel, err>>

Next ==
  \/ ImageAdd
  \/ ImageSubtract
  \/ ImageMultiply
  \/ ImageDivide
  \/ GrayScaleCall
  \/ GrayScaleMethods
  \/ GrayScaleLookup
  \/ SharpenFilter
  \/ MedianFilter
  \/ GaussianFilter
  \/ SobelCall
  \/ SobelIter
  \/ SobelFinish
  \/ ApplyFilterRgb

Spec == Init /\ [][Next]_vars

(***************************************************************************)
(* Properties.                                                             *)
(***************************************************************************)
Saturate(x) == Max(0, Min(MaxSample, x))

IsUniform(img) ==
  \A i \in 1..Height(img) : \A j \in 1..Width(img) : img[i][j] = img[1][1]

Returned(f) == pc = "returned" /\ fn = f

\* the mathematical result of a point-wise function on integers
TrueResult(f, e, c) ==
  CASE f = "image_add" -> e + c
    [] f = "image_subtract" -> e - c
    [] f = "image_multiply" -> e * c

\* C1: with an integer operand, image_add, image_subtract and image_multiply
\* return the true result v+c, v-c or v*c saturated to 0..255, never a
\* wrapped intermediate.
C1_SaturatedTrueResult ==
  (/\ pc = "returned"
   /\ fn \in {"image_add", "image_subtract", "image_multiply"}
   /\ value.kind = "int")
  => \A k \in 1..Len(array) :
       ret.data[k] = Saturate(TrueResult(fn, array[k], value.num))

\* C2: image_divide with divisor 0 ends in an error; it never returns a
\* buffer.
C2_DivideByZeroRaises ==
  (fn = "image_divide" /\ value.num = 0 /\ array # <<>>)
  => (pc = "raised" /\ ret.kind = "none")

\* image_subtract was called on what image_add returned, same operand
AddThenSubtract ==
  /\ Returned("image_subtract")
  /\ prev # <<>>
  /\ prev[1].fn = "image_add"

\* np.clip left every element of a as it was
Unclamped(a) == \A k \in 1..Len(a) : Clip(a[k]) = a[k]

NoClamping == Unclamped(prev[1].arr) /\ Unclamped(arr)

\* C3 as stated: for every operand, integer or fractional, image_add then
\* image_subtract returns the input unless a clamp changed a value.
C3_RoundTripAnyOperand ==
  (AddThenSubtract /\ NoClamping) => ret.data = prev[1].array

\* C3 amended: the round trip returns the input when the operand has an
\* integer value and no clamp changed a value.
C3_RoundTripIntegral ==
  (AddThenSubtract /\ NoClamping /\ Numer(value) % Scale = 0)
  => ret.data = prev[1].array

C3_Witness ==
  /\ AddThenSubtract
  /\ NoClamping
  /\ value = IntOperand(50)
  /\ prev[1].array = <<100, 200>>
  /\ prev[1].ret = <<150, 250>>
  /\ ret.data = <<100, 200>>

\* C4: gray_scale "mean" puts floor((R+G+B)/3) of the true sum into every
\* channel of every pixel.
C4_MeanOfTrueSum ==
  (Returned("gray_scale") /\ method = "mean")
  => \A k \in 1..Len(image) :
       LET m == (image[k][1] + image[k][2] + image[k][3]) \div 3
       IN ret.data[k] = <<m, m, m>>

\* the clamped correlation of a channel with the sharpen kernel
SharpenClamped(ch) ==
  [i \in 1..Height(ch) |->
     [j \in 1..Width(ch) |-> Saturate(Correlate(ch, SharpenKernel, i, j))]]

\* C5: sharpen_filter's result, called directly or per channel through
\* apply_filter_rgb, is the zero-padded correlation clamped to 0..255.
C5_SharpenClamps ==
  /\ Returned("sharpen_filter") => ret.data = SharpenClamped(image)
  /\ (Returned("apply_filter_rgb") /\ filter_func = "sharpen_filter")
     => \A c \in 1..3 : ret.data[c] = SharpenClamped(image[c])

MedianOfUniform == Returned("median_filter") /\ ksize = 3 /\ IsUniform(image)

\* C6 as stated: median_filter with ksize 3 returns a constant image
\* unchanged, corners and borders included.
C6_MedianKeepsUniform == MedianOfUniform => ret.data = image

\* samples of the 3x3 neighbourhood of (i, j) that lie inside the image
InsideCount(img, i, j) ==
  Cardinality({d \in (-1..1) \X (-1..1) :
                 /\ i + d[1] \in 1..Height(img)
                 /\ j + d[2] \in 1..Width(img)})

\* C6 amended: on a constant image of value v, median_filter with ksize 3
\* returns v where at least 5 of the 9 neighbourhood samples are inside
\* the image, and 0 (the padding) elsewhere: at the corners, and at every
\* pixel when H = 1 or W = 1.
C6_MedianOfUniformPadded ==
  MedianOfUniform
  => \A i \in 1..Height(image) : \A j \in 1..Width(image) :
       ret.data[i][j] = IF InsideCount(image, i, j) >= 5 THEN image[1][1] ELSE 0

C6_Witness ==
  /\ MedianOfUniform
  /\ image = Uniform(3, 3, 200)
  /\ ret.data = << <<0, 200, 0>>, <<200, 200, 200>>, <<0, 200, 0>> >>

SobelOfUniform ==
  Returned("sobel") /\ angles = <<"0", "90">> /\ IsUniform(image)

\* C7 as stated: sobel with directions 0 and 90 on a uniform image returns
\* 0 at every sample, border pixels included.
C7_SobelUniformAllZero ==
  SobelOfUniform
  => \A i \in 1..Height(image) : \A j \in 1..Width(image) : ret.data[i][j] = 0

\* the padding cuts the footprint of (i, j) equally on opposite sides
CutSymmetric(img, i, j) ==
  /\ (i > 1) <=> (i < Height(img))
  /\ (j > 1) <=> (j < Width(img))

\* C7 amended: on a uniform image of value v, sobel with directions 0 and
\* 90 returns 0 at every pixel whose footprint lies inside the image; at a
\* border pixel it returns 0 only if v = 0 or the padding cuts the
\* footprint equally on opposite sides, and a positive magnitude otherwise.
C7_SobelUniformZeroInside ==
  SobelOfUniform
  => \A i \in 1..Height(image) : \A j \in 1..Width(image) :
       (ret.data[i][j] = 0) <=> (image[1][1] = 0 \/ CutSymmetric(image, i, j))

C7_Witness ==
  /\ SobelOfUniform
  /\ image = Uniform(3, 3, 10)
  /\ ret.data = << <<42, 40, 42>>, <<40, 0, 40>>, <<42, 40, 42>> >>

\* C8: sobel with no direction fails; it returns neither an image nor a
\* scalar.
C8_EmptyDirectionsRaise ==
  (fn = "sobel" /\ angles = <<>>) => pc # "returned"

\* C9: for odd size the Gaussian kernel is size x size, sampled at offsets
\* -floor(size/2)..floor(size/2), its peak at the middle index, and the
\* footprint it is applied with is symmetric about the pixel.
C9_KernelCentred ==
  (pc = "gaussian_kernel" /\ size % 2 = 1)
  => LET h == size \div 2
     IN /\ Len(kernel) = size
        /\ \A a \in 1..Len(kernel) : Len(kernel[a]) = size
        /\ {GridOffsets(size)[k] : k \in 1..Len(GridOffsets(size))} = (-h)..h
        /\ kernel[h + 1][h + 1] = 0
        /\ FootprintOffsets(Len(kernel)) = (-h)..h

\* C10: a parameter error is raised before any computation: sobel has run
\* no convolution when it rejects a direction, and gray_scale has combined
\* no channels when it rejects a method.
C10_ErrorsBeforeComputation ==
  /\ (pc = "raised" /\ fn = "sobel") => responses = <<>>
  /\ (pc = "raised" /\ fn = "gray_scale") => methods = <<>>

====
